---- MODULE Spec2Model ----
(***************************************************************************)
(* A model of bt_manager, a Python facade over the BlueZ D-Bus interfaces. *)
(*                                                                         *)
(* Part A (SigSpec) models the signal-subscription bookkeeping of one      *)
(* BTInterface instance: _signal_names, _signals, and the subscriptions    *)
(* the instance holds on the system bus.                                   *)
(*                                                                         *)
(* Part B (ObjSpec) models the construction of BTAdapter, BTManager and    *)
(* the device classes, the BlueZ 4 / BlueZ 5 version branching, and the    *)
(* attribute proxy (__getattr__, __setattr__) over the D-Bus properties,   *)
(* and the errors and D-Bus traffic of the public methods.                 *)
(*                                                                         *)
(* Part C (ConcSpec) models add_signal_receiver and remove_signal_receiver *)
(* called on one instance from two threads, statement by statement.        *)
(***************************************************************************)
EXTENDS Integers, Sequences, FiniteSets, TLC

\* Python's None.
None == "None"

\* The exception add_/remove_signal_receiver raise (interface.py:7).
BTSignalNameNotRecognisedException == "BTSignalNameNotRecognisedException"

(***************************************************************************)
(* Bounds of the signal model.                                             *)
(***************************************************************************)
\* Most names _register_signal_name is called with.
MaxNames == 2
\* Most Signal objects add_signal_receiver creates in one run.
MaxAdds == 2
\* Most arguments a delivered signal carries (PropertyChanged carries two:
\* the property's name and its value).
MaxArgs == 2

\* Inputs of the signal operations.
SignalNames == {"PropertyChanged", "DeviceFound"}
\* The (callback_fn, user_arg) pairs a caller installs.
Receivers == {<<"cb1", "u1">>, <<"cb2", "u2">>}
SigArgValues == {"a", "b"}

\* The instance's own interface address and object path (interface.py:97,102),
\* fixed for the signal model, and the addresses a caller may pass as addr
\* (None is the parameter's default).
SelfDbusAddr == "org.bluez.Adapter"
SelfPath == "/org/bluez/hci0"
AddrInputs == {None, "org.freedesktop.DBus.Properties"}

VARIABLES
    signal_names,   \* self._signal_names: the list of registered names
    signals,        \* self._signals: dict, signal name -> Signal object
    bus,            \* the handlers this instance has subscribed on the bus
    installs,       \* what each add_signal_receiver call was given, by object id
    cb_log,         \* the user-callback invocations of the last operation
    delivered,      \* the subscription and arguments of the last delivery
    ret,            \* the last operation: its name, argument, exception, bus requests
    version,        \* BTSimpleInterface._version, cached when the package is imported
    managed,        \* the order in which GetManagedObjects() lists the daemon's objects
    inst,           \* the instance the caller holds: its class and its __dict__
    dlog,           \* the D-Bus objects opened and calls made by the last operation
    oret,           \* the last operation on the instance and its outcome
    threads         \* two threads inside add_/remove_signal_receiver: where each is

sigVars == <<signal_names, signals, bus, installs, cb_log, delivered, ret>>

objVars == <<version, managed, inst, dlog, oret>>

vars == <<signal_names, signals, bus, installs, cb_log, delivered, ret,
          version, managed, inst, dlog, oret, threads>>

\* An empty Python dict, held as a function from its keys.
EmptyDict == [k \in {} |-> None]

\* No instance: nothing has been constructed, or the constructor raised.
NoInst == [cls |-> "none", d |-> EmptyDict]

\* No thread is inside add_signal_receiver or remove_signal_receiver.
Idle ==
    [add_pc |-> "idle", rem_pc |-> "idle", signal |-> None,
     callback_fn |-> None, user_arg |-> None, s |-> <<>>,
     start_signals |-> EmptyDict, start_bus |-> {}, overlapped |-> FALSE]

\* The object variables while only the signal bookkeeping is exercised.
ObjFrozen ==
    /\ version = [major |-> 5, minor |-> 0]
    /\ managed = <<>>
    /\ inst = NoInst
    /\ dlog = <<>>
    /\ oret = [op |-> "none"]

\* x in a Python list.
InList(x, list) == \E i \in 1..Len(list) : list[i] = x

\* Sequences over S of length at most n.
SeqsUpTo(S, n) == UNION {[1..k -> S] : k \in 0..n}

(***************************************************************************)
(* class Signal                                                            *)
(***************************************************************************)
\* Signal.__init__: a new object (id is its identity) holding the three fields.
Signal(id, signal, user_callback, user_arg) ==
    [id |-> id, signal |-> signal, user_callback |-> user_callback,
     user_arg |-> user_arg]

\* Signal.signal_handler(*args): the user-callback invocations it makes, each
\* with the callback called and its positional arguments.
signal_handler_mut_args_first(self, args) ==
    << [fn |-> self.user_callback,
        argv |-> args \o <<self.signal, self.user_arg>>] >>

signal_handler(self, args) ==
    << [fn |-> self.user_callback,
        argv |-> <<self.signal, self.user_arg>> \o args] >>

(***************************************************************************)
(* The bus connection (self._bus), as this instance uses it.  A            *)
(* subscription is the handler with the match rule it was added under,     *)
(* kept by the connection under the rule's path.  A removal request is     *)
(* looked up under the path it gives; the package's request gives none     *)
(* (interface.py:206-208) while it subscribes with path=self._path.        *)
(***************************************************************************)
bus_add_signal_receiver(b, handler, signal, dbus_interface, path) ==
    b \cup {[handler |-> handler, signal |-> signal,
             dbus_interface |-> dbus_interface, path |-> path]}

\* A plausible slip: the path of the request is not compared, so a request
\* that gives no path removes the handler's subscriptions under any path.
bus_remove_signal_receiver_mut_any_path(b, handler, signal, dbus_interface, path) ==
    {m \in b : ~(m.handler.id = handler.id /\ m.signal = signal
                 /\ m.dbus_interface = dbus_interface)}

\* The subscriptions are looked up under the path of the request, None when
\* the request gives none; those registered under another path stay.
bus_remove_signal_receiver(b, handler, signal, dbus_interface, path) ==
    {m \in b : ~(m.path = path /\ m.handler.id = handler.id
                 /\ m.signal = signal /\ m.dbus_interface = dbus_interface)}

(***************************************************************************)
(* class BTInterface: signal bookkeeping                                   *)
(***************************************************************************)
\* BTInterface.__init__: self._signals = {}, self._signal_names = [].
SigInit ==
    /\ signal_names = <<>>
    /\ signals = EmptyDict
    /\ bus = {}
    /\ installs = <<>>
    /\ cb_log = <<>>
    /\ delivered = <<>>
    /\ ret = [op |-> "init", signal |-> None, exc |-> None, bus_reqs |-> 0]
    /\ ObjFrozen
    /\ threads = Idle

\* dict.pop(key) on a dict held as a function.
DictPop(d, key) == [k \in DOMAIN d \ {key} |-> d[k]]

\* dict[key] = value.
DictSet(d, key, value) == [k \in DOMAIN d \cup {key} |->
                              IF k = key THEN value ELSE d[k]]

\* _register_signal_name(name): self._signal_names.append(name).
register_signal_name(name) ==
    /\ Len(signal_names) < MaxNames
    /\ signal_names' = Append(signal_names, name)
    /\ ret' = [op |-> "register", signal |-> name, exc |-> None, bus_reqs |-> 0]
    /\ cb_log' = <<>>
    /\ delivered' = <<>>
    /\ UNCHANGED <<signals, bus, installs, objVars, threads>>

\* A plausible slip: the receiver is recorded before the name is checked.
add_signal_receiver_mut_store_first(callback_fn, signal, user_arg, addr) ==
    /\ Len(installs) < MaxAdds
    /\ LET s == Signal(Len(installs) + 1, signal, callback_fn, user_arg)
       IN /\ signals' = DictSet(signals, signal, s)
          /\ installs' = Append(installs, [callback_fn |-> callback_fn,
                                           signal |-> signal,
                                           user_arg |-> user_arg])
          /\ IF InList(signal, signal_names)
             THEN /\ bus' = bus_add_signal_receiver(bus, s, signal,
                               IF addr = None THEN SelfDbusAddr ELSE addr,
                               SelfPath)
                  /\ ret' = [op |-> "add", signal |-> signal, exc |-> None,
                             bus_reqs |-> 1]
             ELSE /\ bus' = bus
                  /\ ret' = [op |-> "add", signal |-> signal,
                             exc |-> BTSignalNameNotRecognisedException,
                             bus_reqs |-> 0]
    /\ cb_log' = <<>>
    /\ delivered' = <<>>
    /\ UNCHANGED <<signal_names, objVars, threads>>

\* add_signal_receiver(callback_fn, signal, user_arg, addr=None).
add_signal_receiver(callback_fn, signal, user_arg, addr) ==
    /\ IF InList(signal, signal_names)
       THEN /\ Len(installs) < MaxAdds
            /\ LET a == IF addr = None THEN SelfDbusAddr ELSE addr
                   s == Signal(Len(installs) + 1, signal, callback_fn, user_arg)
               IN /\ signals' = DictSet(signals, signal, s)
                  /\ bus' = bus_add_signal_receiver(bus, s, signal, a, SelfPath)
            /\ installs' = Append(installs, [callback_fn |-> callback_fn,
                                             signal |-> signal,
                                             user_arg |-> user_arg])
            /\ ret' = [op |-> "add", signal |-> signal, exc |-> None,
                       bus_reqs |-> 1]
       ELSE /\ ret' = [op |-> "add", signal |-> signal,
                       exc |-> BTSignalNameNotRecognisedException,
                       bus_reqs |-> 0]
            /\ UNCHANGED <<signals, bus, installs>>
    /\ cb_log' = <<>>
    /\ delivered' = <<>>
    /\ UNCHANGED <<signal_names, objVars, threads>>

\* A plausible slip: the name check is dropped, and a missing receiver is
\* still handed to the bus and popped.
remove_signal_receiver_mut_no_checks(signal) ==
    /\ signals' = DictPop(signals, signal)
    /\ bus' = IF signal \in DOMAIN signals
              THEN bus_remove_signal_receiver(bus, signals[signal], signal,
                                              SelfDbusAddr, None)
              ELSE bus
    /\ ret' = [op |-> "remove", signal |-> signal, exc |-> None, bus_reqs |-> 1]
    /\ cb_log' = <<>>
    /\ delivered' = <<>>
    /\ UNCHANGED <<signal_names, installs, objVars, threads>>

\* remove_signal_receiver(signal).
remove_signal_receiver(signal) ==
    /\ IF InList(signal, signal_names)
       THEN IF signal \in DOMAIN signals
            THEN /\ bus' = bus_remove_signal_receiver(bus, signals[signal],
                                                      signal, SelfDbusAddr, None)
                 /\ signals' = DictPop(signals, signal)
                 /\ ret' = [op |-> "remove", signal |-> signal, exc |-> None,
                            bus_reqs |-> 1]
            ELSE /\ ret' = [op |-> "remove", signal |-> signal, exc |-> None,
                            bus_reqs |-> 0]
                 /\ UNCHANGED <<signals, bus>>
       ELSE /\ ret' = [op |-> "remove", signal |-> signal,
                       exc |-> BTSignalNameNotRecognisedException,
                       bus_reqs |-> 0]
            /\ UNCHANGED <<signals, bus>>
    /\ cb_log' = <<>>
    /\ delivered' = <<>>
    /\ UNCHANGED <<signal_names, installs, objVars, threads>>

\* The bus delivers signal m.signal with arguments args to subscription m: it
\* calls the subscribed handler, Signal.signal_handler(*args).
deliver_signal(m, args) ==
    /\ cb_log' = signal_handler(m.handler, args)
    /\ delivered' = << [sub |-> m, args |-> args] >>
    /\ ret' = [op |-> "deliver", signal |-> m.signal, exc |-> None,
               bus_reqs |-> 0]
    /\ UNCHANGED <<signal_names, signals, bus, installs, objVars, threads>>

RegisterStep == \E name \in SignalNames : register_signal_name(name)

AddStep ==
    \E r \in Receivers, s \in SignalNames, a \in AddrInputs :
        add_signal_receiver(r[1], s, r[2], a)

RemoveStep == \E s \in SignalNames : remove_signal_receiver(s)

DeliverStep ==
    \E m \in bus, args \in SeqsUpTo(SigArgValues, MaxArgs) :
        deliver_signal(m, args)

SigNext ==
    \/ RegisterStep
    \/ AddStep
    \/ RemoveStep
    \/ DeliverStep

SigSpec == SigInit /\ [][SigNext]_vars

(***************************************************************************)
(* Claims about the signal bookkeeping, checked under SigSpec.             *)
(***************************************************************************)
\* C1: once remove_signal_receiver(S) has returned normally for a registered
\* S, no handler this instance installed for S is still subscribed on the bus.
C1_RemoveLeavesNoHandler ==
    (ret.op = "remove" /\ ret.exc = None)
        => \A m \in bus : m.signal # ret.signal

\* C2: add_signal_receiver raises BTSignalNameNotRecognisedException exactly
\* when the signal name is not registered, and a raising call changes neither
\* the table of installed receivers nor the bus subscriptions.
C2_AddRaisesIffUnregistered ==
    [][ret'.op = "add" =>
        /\ (ret'.exc = BTSignalNameNotRecognisedException)
               <=> ~InList(ret'.signal, signal_names)
        /\ (ret'.exc = BTSignalNameNotRecognisedException)
               => (signals' = signals /\ bus' = bus)]_vars

\* A raising add on an instance that already holds a receiver and a subscription.
C2_Witness ==
    /\ ret.op = "add"
    /\ ret.exc = BTSignalNameNotRecognisedException
    /\ DOMAIN signals # {}
    /\ bus # {}

\* C3: remove_signal_receiver raises exactly when the name is not registered;
\* for a registered name with no receiver installed it returns normally,
\* issues no bus request and leaves the table (and the bus) as they were.
C3_RemoveRaisesIffUnregistered ==
    [][ret'.op = "remove" =>
        /\ (ret'.exc = BTSignalNameNotRecognisedException)
               <=> ~InList(ret'.signal, signal_names)
        /\ (InList(ret'.signal, signal_names) /\ ret'.signal \notin DOMAIN signals)
               => /\ ret'.exc = None
                  /\ ret'.bus_reqs = 0
                  /\ signals' = signals
                  /\ bus' = bus]_vars

\* A normal return of remove for a registered name with nothing installed for
\* it, while another name's receiver is installed.
C3_Witness ==
    /\ ret.op = "remove"
    /\ ret.exc = None
    /\ ret.bus_reqs = 0
    /\ InList(ret.signal, signal_names)
    /\ DOMAIN signals # {}

\* C4: a delivery of signal S with arguments args to an installed receiver
\* invokes the user callback exactly once, with S, then the user_arg given at
\* installation, then args in their order.
C4_DeliveryCallsCallbackOnce ==
    ret.op = "deliver" =>
        LET d == delivered[1]
            given == installs[d.sub.handler.id]
        IN /\ Len(cb_log) = 1
           /\ cb_log[1].fn = given.callback_fn
           /\ cb_log[1].argv = <<d.sub.signal, given.user_arg>> \o d.args

\* A delivery that carries two different arguments, to the second receiver
\* installed, whose callback got them after the signal name and user_arg.
C4_Witness ==
    /\ ret.op = "deliver"
    /\ Len(delivered[1].args) = 2
    /\ delivered[1].args[1] # delivered[1].args[2]
    /\ delivered[1].sub.handler.id = 2
    /\ Len(cb_log) = 1
    /\ Len(cb_log[1].argv) = 4

(***************************************************************************)
(* Part B.  Python values are tagged tuples of strings: <<"None">>,        *)
(* <<"str", s>>, <<"list", x1, ...>>, <<"iface", path, name>>, ...         *)
(***************************************************************************)
PyNone == <<"None">>
PyStr(s) == <<"str", s>>
PyList(seq) == <<"list">> \o seq

\* Python truthiness of an optional string argument.
Truthy(x) == x \notin {None, ""}

\* The members of a Python list value.
ListItems(l) == {l[i] : i \in 2..Len(l)}

(***************************************************************************)
(* BlueZ version branching.  A version is the float bluetoothd prints,     *)
(* held as its integer part and its fraction digits (4.98: 4 and 98).      *)
(***************************************************************************)
BLUEZ4_VERSION == 4

Versions ==
    {[major |-> 4, minor |-> 0], [major |-> 4, minor |-> 98],
     [major |-> 4, minor |-> 101], [major |-> 5, minor |-> 0],
     [major |-> 5, minor |-> 50]}

\* float v <= n, v < n, v > n for an integer n.
FloatLE(v, n) == v.major < n \/ (v.major = n /\ v.minor = 0)
FloatLT(v, n) == v.major < n
FloatGT(v, n) == ~FloatLE(v, n)

\* BTSimpleInterface.get_version(): the cached class attribute.
get_version == version

\* `self.get_version() <= self.BLUEZ4_VERSION`: the BlueZ 4 branch of the
\* classes; `self.get_version() > self.BLUEZ4_VERSION`: the BlueZ 5 branch
\* of the device methods; `get_version() < BLUEZ4_VERSION`: the import branch.
TakesBluez4Branch == FloatLE(get_version, BLUEZ4_VERSION)
TakesBluez5Branch == FloatGT(get_version, BLUEZ4_VERSION)
ImportsBluez4Audio == FloatLT(get_version, BLUEZ4_VERSION)

(***************************************************************************)
(* Interface names and signal names of the classes.                        *)
(***************************************************************************)
BLUEZ_DBUS_OBJECT == "org.bluez"
DBUS_PROPERTIES == "org.freedesktop.DBus.Properties"
DBUS_OBJ_MANAGER == "org.freedesktop.DBus.ObjectManager"
MANAGER_INTERFACE_BLUEZ4 == "org.bluez.Manager"
ADAPTER_INTERFACE_BLUEZ4 == "org.bluez.Adapter"
ADAPTER_INTERFACE_BLUEZ5 == "org.bluez.Adapter1"
DEVICE_INTERFACE_BLUEZ4 == "org.bluez.Device"
DEVICE_INTERFACE_BLUEZ5 == "org.bluez.Device1"
CONTROL_INTERFACE_BLUEZ4 == "org.bluez.Control"
MEDIA_CONTROL_INTERFACE_BLUEZ5 == "org.bluez.MediaControl1"
AGENT_INTERFACE == "org.bluez.AgentManager1"

(***************************************************************************)
(* The daemon, as the calls of this package see it: two adapters, a device *)
(* on each, and the properties of each interface.  It answers every call;  *)
(* a lookup of something it does not have raises a DBusException.          *)
(***************************************************************************)
Hci0 == "/org/bluez/hci0"
Hci1 == "/org/bluez/hci1"
Dev11 == "/org/bluez/hci0/dev_11"
Dev22 == "/org/bluez/hci1/dev_22"

AdapterPaths == {Hci0, Hci1}
DevicePaths == {Dev11, Dev22}

\* The "Address" property of each object.
AddressOf(path) ==
    CASE path = Hci0 -> "00:00"
      [] path = Hci1 -> "00:01"
      [] path = Dev11 -> "11:11"
      [] path = Dev22 -> "22:22"
      [] OTHER -> None

\* The adapter a device belongs to.
AdapterOf(path) ==
    CASE path = Dev11 -> Hci0
      [] path = Dev22 -> Hci1
      [] OTHER -> None

\* The strings s for which `s in key` holds, among the patterns used.
PathSubstrings(key) ==
    CASE key = Hci0 -> {Hci0, "hci0", "hci"}
      [] key = Hci1 -> {Hci1, "hci1", "hci"}
      [] OTHER -> {key}

\* The interfaces GetManagedObjects() reports for an object.
InterfacesOf(path) ==
    IF path \in AdapterPaths THEN {ADAPTER_INTERFACE_BLUEZ5, DBUS_PROPERTIES}
    ELSE IF path \in DevicePaths
         THEN {DEVICE_INTERFACE_BLUEZ5, MEDIA_CONTROL_INTERFACE_BLUEZ5,
               DBUS_PROPERTIES}
         ELSE {}

\* The two orders GetManagedObjects().items() may list the objects in.
ManagedOrders == { <<Hci0, Dev11, Hci1, Dev22>>, <<Dev22, Hci1, Dev11, Hci0>> }

\* The property names of an interface, as GetProperties() / GetAll() list them.
PropNames(iface) ==
    CASE iface \in {ADAPTER_INTERFACE_BLUEZ4, ADAPTER_INTERFACE_BLUEZ5}
           -> <<"Address", "Powered">>
      [] iface \in {DEVICE_INTERFACE_BLUEZ4, DEVICE_INTERFACE_BLUEZ5}
           -> <<"Address", "Trusted", "Connected">>
      [] iface \in {CONTROL_INTERFACE_BLUEZ4, MEDIA_CONTROL_INTERFACE_BLUEZ5}
           -> <<"Connected">>
      [] iface = MANAGER_INTERFACE_BLUEZ4 -> <<"Adapters">>
      [] OTHER -> <<>>

\* The D-Bus type of a property's value.
PropType(name) ==
    CASE name \in {"Powered", "Trusted", "Connected"} -> "dbus.Boolean"
      [] name = "Adapters" -> "dbus.Array"
      [] OTHER -> "dbus.String"

\* The value the daemon holds for a property of an object.
PropValue(path, iface, name) == <<PropType(name), path, iface, name>>

(***************************************************************************)
(* A call in progress: the instance __dict__ (d), the D-Bus objects opened *)
(* and calls made (log), the exception raised if any (exc), the value      *)
(* returned (val), the version branches taken (br), the set_property       *)
(* invocations made by __setattr__ (sp), and who raised the exception      *)
(* (by): the daemon, out of a D-Bus method call, or the package's own code.*)
(***************************************************************************)
Start(d) ==
    [d |-> d, log |-> <<>>, exc |-> None, val |-> PyNone, br |-> {},
     sp |-> <<>>, by |-> None]

\* An exception raised by the package's code (a raise statement, or a
\* Python error of one of its expressions).
Raise(st, e) == [st EXCEPT !.exc = e, !.val = PyNone, !.by = "package"]

\* An exception the daemon answers a D-Bus method call with; the proxy
\* raises it in the caller.
DaemonRaise(st, e) == [st EXCEPT !.exc = e, !.val = PyNone, !.by = "daemon"]
Return(st, v) == [st EXCEPT !.val = v]
Dbus(st, entry) == [st EXCEPT !.log = Append(@, entry)]
Branch(st, b) == [st EXCEPT !.br = @ \cup {b}]

\* A D-Bus method call on interface iface of the object at path.
DbusCall(st, path, iface, method, args) ==
    Dbus(st, <<"call", path, iface, method>> \o args)

\* The same, unless an exception is in flight.
CallOk(st, path, iface, method, args) ==
    IF st.exc # None THEN st ELSE DbusCall(st, path, iface, method, args)

\* `return None`, and `raise e`, unless an exception is in flight.
ReturnNone(st) == IF st.exc # None THEN st ELSE Return(st, PyNone)
RaiseOk(st, e) == IF st.exc # None THEN st ELSE Raise(st, e)

\* The instance attribute as the methods read it: the __dict__ entry, else
\* what __getattr__ gives for a name that is no property, None.
ReadAttr(d, name) == IF name \in DOMAIN d THEN d[name] ELSE PyNone

\* The path and interface name of an `iface` value.
IfacePath(i) == i[2]
IfaceName(i) == i[3]

(***************************************************************************)
(* translate_to_dbus_type(typeof, value)                                   *)
(***************************************************************************)
\* The strings eval() evaluates, each to the literal it spells.
Literals == {"True", "False"}

translate_to_dbus_type(typeof, value) ==
    IF value[1] \in {"unicode", "str"} /\ typeof # "dbus.String"
    THEN IF value[2] \in Literals
         THEN [exc |-> None, val |-> <<typeof, value[2]>>]
         ELSE [exc |-> "NameError", val |-> PyNone]
    ELSE [exc |-> None, val |-> <<typeof, value[2]>>]

(***************************************************************************)
(* get_property and set_property of the classes                            *)
(***************************************************************************)
\* self._interface.GetProperties()[name], or GetProperties() for no name.
GetPropertiesOf(st, name) ==
    LET i == ReadAttr(st.d, "_interface")
        s1 == DbusCall(st, IfacePath(i), IfaceName(i), "GetProperties", <<>>)
    IN IF Truthy(name)
       THEN IF InList(name, PropNames(IfaceName(i)))
            THEN Return(s1, PropValue(IfacePath(i), IfaceName(i), name))
            ELSE Raise(s1, "KeyError")
       ELSE Return(s1, <<"dict", IfacePath(i), IfaceName(i)>>)

\* self._props_interface.Get(iface, name), or GetAll(iface) for no name.
PropsGetOf(st, iface, name) ==
    LET p == ReadAttr(st.d, "_props_interface")
    IN IF p = PyNone
       THEN Raise(st, "AttributeError")
       ELSE IF Truthy(name)
            THEN LET s1 == DbusCall(st, IfacePath(p), DBUS_PROPERTIES, "Get",
                                    <<iface, name>>)
                 IN IF InList(name, PropNames(iface))
                    THEN Return(s1, PropValue(IfacePath(p), iface, name))
                    ELSE DaemonRaise(s1,
                             "DBusException:org.bluez.Error.InvalidArguments")
            ELSE Return(DbusCall(st, IfacePath(p), DBUS_PROPERTIES, "GetAll",
                                 <<iface>>),
                        <<"dict", IfacePath(p), iface>>)

\* BTAdapter.get_property(name=None).
BTAdapter_get_property(st, name) ==
    IF TakesBluez4Branch
    THEN GetPropertiesOf(Branch(st, "bluez4"), name)
    ELSE PropsGetOf(Branch(st, "bluez5"), ADAPTER_INTERFACE_BLUEZ5, name)

\* BTGenericDevice.get_property(name=None).
BTGenericDevice_get_property(st, name) ==
    IF TakesBluez4Branch
    THEN GetPropertiesOf(Branch(st, "bluez4"), name)
    ELSE PropsGetOf(Branch(st, "bluez5"), DEVICE_INTERFACE_BLUEZ5, name)

\* BTControl.get_property(name=None).
BTControl_get_property(st, name) ==
    IF TakesBluez4Branch
    THEN Raise(Branch(st, "bluez4"), "Exception:Not handled with bluez 4")
    ELSE PropsGetOf(Branch(st, "bluez5"), DEVICE_INTERFACE_BLUEZ5, name)

\* The adapter paths in the order GetManagedObjects() lists them.
ManagedAdapters ==
    SelectSeq(managed, LAMBDA k : ADAPTER_INTERFACE_BLUEZ5 \in InterfacesOf(k))

\* The device paths in the order GetManagedObjects() lists them.
ManagedDevices ==
    SelectSeq(managed, LAMBDA k : DEVICE_INTERFACE_BLUEZ5 \in InterfacesOf(k))

\* BTManager.list_adapters().
BTManager_list_adapters(st) ==
    LET i == ReadAttr(st.d, "_interface")
    IN IF TakesBluez4Branch
       THEN Return(DbusCall(Branch(st, "bluez4"), IfacePath(i), IfaceName(i),
                            "ListAdapters", <<>>),
                   PyList(<<Hci0, Hci1>>))
       ELSE Return(DbusCall(Branch(st, "bluez5"), IfacePath(i), IfaceName(i),
                            "GetManagedObjects", <<>>),
                   PyList(ManagedAdapters))

\* BTManager.get_property(name=None).  On the BlueZ 5 branch the list is
\* fetched and then assigned to an attribute of a dict, which raises.
BTManager_get_property(st, name) ==
    IF TakesBluez4Branch
    THEN GetPropertiesOf(Branch(st, "bluez4"), name)
    ELSE RaiseOk(BTManager_list_adapters(Branch(st, "bluez5")), "AttributeError")

\* self.get_property(name), by the class of self.
get_property(st, cls, name) ==
    CASE cls = "BTAdapter" -> BTAdapter_get_property(st, name)
      [] cls = "BTManager" -> BTManager_get_property(st, name)
      [] cls = "BTControl" -> BTControl_get_property(st, name)
      [] OTHER -> BTGenericDevice_get_property(st, name)

\* The second half of set_property: g is the call after
\* `typeof = type(self.get_property(name))`, t the translated value; the
\* value is sent with SetProperty (BlueZ 4) or Properties.Set (BlueZ 5).
SendProperty(g, t, iface5, name) ==
    IF t.exc # None THEN Raise(g, t.exc)
    ELSE IF TakesBluez4Branch
         THEN Return(DbusCall(g, IfacePath(ReadAttr(g.d, "_interface")),
                              IfaceName(ReadAttr(g.d, "_interface")),
                              "SetProperty", <<name>> \o t.val),
                     PyNone)
         ELSE Return(DbusCall(g, IfacePath(ReadAttr(g.d, "_props_interface")),
                              DBUS_PROPERTIES, "Set",
                              <<iface5, name>> \o t.val),
                     PyNone)

\* The first half: nothing is sent when get_property raised.
SetPropertyAfterGet(g, iface5, name, value) ==
    IF g.exc # None THEN g
    ELSE SendProperty(g, translate_to_dbus_type(g.val[1], value), iface5, name)

\* BTAdapter.set_property(name, value).
BTAdapter_set_property(st, name, value) ==
    SetPropertyAfterGet(BTAdapter_get_property(st, name),
                        ADAPTER_INTERFACE_BLUEZ5, name, value)

\* BTGenericDevice.set_property(name, value), inherited by BTDevice and
\* BTControl; self.get_property is the subclass's.
BTGenericDevice_set_property(st, cls, name, value) ==
    SetPropertyAfterGet(get_property(st, cls, name),
                        DEVICE_INTERFACE_BLUEZ5, name, value)

\* BTInterface.set_property(name, value): `return`.
BTInterface_set_property(st, name, value) == Return(st, PyNone)

\* self.set_property(name, value), by the class of self.
set_property(st, cls, name, value) ==
    CASE cls = "BTAdapter" -> BTAdapter_set_property(st, name, value)
      [] cls = "BTManager" -> BTInterface_set_property(st, name, value)
      [] OTHER -> BTGenericDevice_set_property(st, cls, name, value)

(***************************************************************************)
(* BTInterface.__getattr__ and __setattr__                                 *)
(***************************************************************************)
\* __getattr__(name): called when the normal lookup finds nothing.
BTInterface_getattr(st, cls, name) ==
    IF name \in DOMAIN st.d
    THEN Return(st, st.d[name])
    ELSE IF "_properties" \in DOMAIN st.d
              /\ name \in ListItems(st.d["_properties"])
         THEN get_property(st, cls, name)
         ELSE Return(st, PyNone)

\* Reading self.name: the instance __dict__, else __getattr__.
GetAttribute(st, cls, name) ==
    IF st.exc # None THEN st
    ELSE IF name \in DOMAIN st.d
         THEN Return(st, st.d[name])
         ELSE BTInterface_getattr(st, cls, name)

\* __setattr__(name, value).  The set_property calls it makes are recorded.
BTInterface_setattr(st, cls, name, value) ==
    IF "_properties" \in DOMAIN st.d /\ name \notin DOMAIN st.d
    THEN ReturnNone(set_property([st EXCEPT !.sp = Append(@, <<name>> \o value)],
                                 cls, name, value))
    ELSE Return([st EXCEPT !.d = DictSet(@, name, value)], PyNone)

\* The statement self.name = value.
SetAttribute(st, cls, name, value) ==
    IF st.exc # None THEN st ELSE BTInterface_setattr(st, cls, name, value)

(***************************************************************************)
(* Constructors                                                            *)
(***************************************************************************)
\* A D-Bus object or interface opened, unless an exception is in flight.
Open(st, entry) == IF st.exc # None THEN st ELSE Dbus(st, entry)

\* BTSimpleInterface._init_bus().
init_bus(st, cls) ==
    IF st.exc # None THEN st
    ELSE IF ReadAttr(st.d, "_bus") = PyNone
         THEN SetAttribute(Open(st, <<"SystemBus">>), cls, "_bus", <<"SystemBus">>)
         ELSE st

\* self.name = value after the D-Bus object or interface `entry` was opened
\* for it (get_object, dbus.Interface).
OpenInto(st, cls, entry, name, value) ==
    SetAttribute(Open(st, entry), cls, name, value)

\* BTSimpleInterface.__init__(path, addr).
BTSimpleInterface_init(st, cls, path, addr) ==
    SetAttribute(
        OpenInto(
            OpenInto(
                init_bus(SetAttribute(st, cls, "_dbus_addr", PyStr(addr)), cls),
                cls, <<"get_object", BLUEZ_DBUS_OBJECT, path>>,
                "_object", <<"proxy", path>>),
            cls, <<"Interface", path, addr>>,
            "_interface", <<"iface", path, addr>>),
        cls, "_path", PyStr(path))

\* BTInterface.__init__(path, addr).
BTInterface_init(st, cls, path, addr) ==
    SetAttribute(
        SetAttribute(BTSimpleInterface_init(st, cls, path, addr),
                     cls, "_signals", <<"dict">>),
        cls, "_signal_names", PyList(<<>>))

\* BTInterface._register_signal_name(name), on the instance's own list.
RegisterName(st, name) ==
    IF st.exc # None THEN st
    ELSE [st EXCEPT !.d = DictSet(@, "_signal_names",
                                  Append(ReadAttr(@, "_signal_names"), name))]

\* _register_signal_name for each name of a sequence, in order.
RECURSIVE RegisterNames(_, _)
RegisterNames(st, names) ==
    IF names = <<>> THEN st
    ELSE RegisterNames(RegisterName(st, Head(names)), Tail(names))

\* _init_properties() on the object at path: the Properties interface is
\* opened, the names of iface's properties are kept, a signal is registered.
InitPropertiesAt(st, cls, iface, path) ==
    RegisterName(
        SetAttribute(
            CallOk(OpenInto(st, cls, <<"Interface", path, DBUS_PROPERTIES>>,
                            "_props_interface",
                            <<"iface", path, DBUS_PROPERTIES>>),
                   path, DBUS_PROPERTIES, "GetAll", <<iface>>),
            cls, "_properties", PyList(PropNames(iface))),
        "PropertiesChanged")

\* _init_properties() of BTAdapter, BTGenericDevice and BTControl: they
\* differ in the interface whose properties are listed.
InitProperties(st, cls, iface) ==
    IF st.exc # None THEN st
    ELSE InitPropertiesAt(st, cls, iface, ReadAttr(st.d, "_object")[2])

\* BTAdapter._init_agent().
BTAdapter_init_agent(st) ==
    OpenInto(Open(st, <<"get_object", BLUEZ_DBUS_OBJECT, "/org/bluez">>),
             "BTAdapter", <<"Interface", "/org/bluez", AGENT_INTERFACE>>,
             "_agent_interface", <<"iface", "/org/bluez", AGENT_INTERFACE>>)

\* BTAdapter._init_object_manager().
BTAdapter_init_object_manager(st) ==
    RegisterNames(
        OpenInto(Open(st, <<"get_object", BLUEZ_DBUS_OBJECT, "/">>),
                 "BTAdapter", <<"Interface", "/", DBUS_OBJ_MANAGER>>,
                 "_ojects_interface", <<"iface", "/", DBUS_OBJ_MANAGER>>),
        <<"InterfacesAdded", "InterfacesRemoved">>)

\* BTAdapter.__init__, after self.adapter_path = adapter_path.
BTAdapter_open(st, adapter_path) ==
    IF TakesBluez4Branch
    THEN RegisterNames(
             SetAttribute(
                 CallOk(BTInterface_init(Branch(st, "bluez4"), "BTAdapter",
                                         adapter_path, ADAPTER_INTERFACE_BLUEZ4),
                        adapter_path, ADAPTER_INTERFACE_BLUEZ4,
                        "GetProperties", <<>>),
                 "BTAdapter", "_properties",
                 PyList(PropNames(ADAPTER_INTERFACE_BLUEZ4))),
             <<"PropertyChanged", "DeviceFound", "DeviceRemoved",
               "DeviceCreated", "DeviceDisappeared">>)
    ELSE InitProperties(
             BTAdapter_init_object_manager(
                 BTAdapter_init_agent(
                     BTInterface_init(Branch(st, "bluez5"), "BTAdapter",
                                      adapter_path, ADAPTER_INTERFACE_BLUEZ5))),
             "BTAdapter", ADAPTER_INTERFACE_BLUEZ5)

\* BTAdapter.__init__(adapter_path).
BTAdapter_init(st, adapter_path) ==
    BTAdapter_open(SetAttribute(st, "BTAdapter", "adapter_path",
                                PyStr(adapter_path)),
                   adapter_path)

\* The call BTAdapter(**kw): the keywords are bound to the signature
\* __init__(self, adapter_path), and a call that does not fit it raises.
BTAdapter_new(st, kw) ==
    IF DOMAIN kw # {"adapter_path"}
    THEN Raise(st, "TypeError")
    ELSE BTAdapter_init(st, kw["adapter_path"])

\* BTAdapter.find_device(dev_id).
BTAdapter_find_device(st, dev_id) ==
    IF st.exc # None THEN st
    ELSE IF TakesBluez4Branch
    THEN LET i == ReadAttr(st.d, "_interface")
             s1 == DbusCall(Branch(st, "bluez4"), IfacePath(i), IfaceName(i),
                            "FindDevice", <<dev_id>>)
             found == {k \in DevicePaths : AdapterOf(k) = IfacePath(i)
                                           /\ AddressOf(k) = dev_id}
         IN IF found = {}
            THEN DaemonRaise(s1, "DBusException:org.bluez.Error.DoesNotExist")
            ELSE Return(s1, PyStr(CHOOSE k \in found : TRUE))
    ELSE LET o == ReadAttr(st.d, "_ojects_interface")
             s1 == DbusCall(Branch(st, "bluez5"), IfacePath(o), IfaceName(o),
                            "GetManagedObjects", <<>>)
             found == SelectSeq(ManagedDevices, LAMBDA k : AddressOf(k) = dev_id)
         IN IF found = <<>>
            THEN Raise(s1, "DBusException:org.bluez.Error.DoesNotExist")
            ELSE Return(s1, PyStr(found[1]))

\* The outcome of a call made on another object, carried into the caller's
\* own call: the caller's __dict__ is its own.
Rejoin(st, other) ==
    [st EXCEPT !.log = other.log, !.exc = other.exc, !.val = other.val,
               !.br = other.br, !.by = other.by]

\* A call on a new object, continuing the caller's call st.
Fresh(st) == [st EXCEPT !.d = EmptyDict, !.sp = <<>>]

\* The keywords BTGenericDevice.__init__ calls BTAdapter with.
AdapterKeywords(adapter_path, adapter_id) ==
    IF Truthy(adapter_id) \/ Truthy(adapter_path)
    THEN [k \in {"adapter_path", "adapter_id"} |->
             IF k = "adapter_path" THEN adapter_path ELSE adapter_id]
    ELSE EmptyDict

\* BTGenericDevice.__init__, first part: the object path of the device.
DevicePathFor(st, dev_path, adapter_path, adapter_id, dev_id) ==
    IF Truthy(dev_path) THEN Return(st, PyStr(dev_path))
    ELSE IF Truthy(dev_id)
         THEN Rejoin(st, BTAdapter_find_device(
                             BTAdapter_new(Fresh(st),
                                 AdapterKeywords(adapter_path, adapter_id)),
                             dev_id))
         ELSE Raise(st, "BTDeviceNotSpecifiedException")

\* BTGenericDevice.__init__, last part: _init_properties() on BlueZ 5.
DeviceInitProperties(st, cls) ==
    IF st.exc # None THEN st
    ELSE IF TakesBluez5Branch
         THEN InitProperties(Branch(st, "bluez5"), cls,
                             IF cls = "BTControl"
                             THEN MEDIA_CONTROL_INTERFACE_BLUEZ5
                             ELSE DEVICE_INTERFACE_BLUEZ5)
         ELSE Branch(st, "bluez4")

\* BTGenericDevice.__init__, from BTInterface.__init__(self, path, addr) on:
\* s0 is the call after the path was resolved.
OpenDevice(s0, cls, addr) ==
    IF s0.exc # None THEN s0
    ELSE DeviceInitProperties(BTInterface_init(s0, cls, s0.val[2], addr), cls)

\* A plausible slip: the interface is opened before the device is resolved.
BTGenericDevice_init_mut_open_first(st, cls, addr, dev_path, adapter_path, adapter_id, dev_id) ==
    IF Truthy(dev_path)
    THEN DeviceInitProperties(BTInterface_init(st, cls, dev_path, addr), cls)
    ELSE Raise(BTInterface_init(st, cls, None, addr),
               "BTDeviceNotSpecifiedException")

\* BTGenericDevice.__init__(addr, dev_path, adapter_path, adapter_id, dev_id).
BTGenericDevice_init(st, cls, addr, dev_path, adapter_path, adapter_id, dev_id) ==
    OpenDevice(DevicePathFor(st, dev_path, adapter_path, adapter_id, dev_id),
               cls, addr)

\* BTDevice.__init__(**kwargs).
BTDevice_init(st, dev_path, adapter_path, adapter_id, dev_id) ==
    IF TakesBluez4Branch
    THEN RegisterNames(
             BTGenericDevice_init(Branch(st, "bluez4"), "BTDevice",
                                  DEVICE_INTERFACE_BLUEZ4, dev_path,
                                  adapter_path, adapter_id, dev_id),
             <<"DisconnectRequested", "NodeCreated", "NodeRemoved">>)
    ELSE BTGenericDevice_init(Branch(st, "bluez5"), "BTDevice",
                              DEVICE_INTERFACE_BLUEZ5, dev_path,
                              adapter_path, adapter_id, dev_id)

\* BTControl.__init__(**kwargs).
BTControl_init(st, dev_path, adapter_path, adapter_id, dev_id) ==
    IF TakesBluez4Branch
    THEN RegisterNames(
             BTGenericDevice_init(Branch(st, "bluez4"), "BTControl",
                                  CONTROL_INTERFACE_BLUEZ4, dev_path,
                                  adapter_path, adapter_id, dev_id),
             <<"Connected", "Disconnected">>)
    ELSE InitProperties(
             BTGenericDevice_init(Branch(st, "bluez5"), "BTControl",
                                  MEDIA_CONTROL_INTERFACE_BLUEZ5, dev_path,
                                  adapter_path, adapter_id, dev_id),
             "BTControl", MEDIA_CONTROL_INTERFACE_BLUEZ5)

(***************************************************************************)
(* class BTManager                                                         *)
(***************************************************************************)
\* The name of an adapter ("hci0") as FindAdapter() takes it.
AdapterId(path) ==
    CASE path = Hci0 -> "hci0"
      [] path = Hci1 -> "hci1"
      [] OTHER -> None

\* default_adapter() on BlueZ 5, after list_adapters(): raise for an empty
\* list, else adapters.pop().
PopLast(st) ==
    IF st.exc # None THEN st
    ELSE IF Len(st.val) = 1
         THEN Raise(st, "DBusException:org.bluez.Error.NoSuchAdapter")
         ELSE Return(st, PyStr(st.val[Len(st.val)]))

\* BTManager.default_adapter().
BTManager_default_adapter(st) ==
    IF TakesBluez4Branch
    THEN LET i == ReadAttr(st.d, "_interface")
         IN Return(DbusCall(Branch(st, "bluez4"), IfacePath(i), IfaceName(i),
                            "DefaultAdapter", <<>>),
                   PyStr(Hci0))
    ELSE PopLast(BTManager_list_adapters(Branch(st, "bluez5")))

\* BTManager.find_adapter(pattern).
BTManager_find_adapter(st, pattern) ==
    LET i == ReadAttr(st.d, "_interface")
    IN IF TakesBluez4Branch
       THEN LET s1 == DbusCall(Branch(st, "bluez4"), IfacePath(i), IfaceName(i),
                               "FindAdapter", <<pattern>>)
                found == {k \in AdapterPaths :
                             pattern \in {AdapterId(k), AddressOf(k)}}
            IN IF found = {}
               THEN DaemonRaise(s1,
                        "DBusException:org.bluez.Error.NoSuchAdapter")
               ELSE Return(s1, PyStr(CHOOSE k \in found : TRUE))
       ELSE LET s1 == DbusCall(Branch(st, "bluez5"), IfacePath(i), IfaceName(i),
                               "GetManagedObjects", <<>>)
                found == SelectSeq(ManagedAdapters,
                             LAMBDA k : pattern \in PathSubstrings(k)
                                        \/ AddressOf(k) = pattern)
            IN IF found = <<>>
               THEN Raise(s1, "DBusException:org.bluez.Error.NoSuchAdapter")
               ELSE Return(s1, PyStr(found[1]))

\* The adapter path BTManager.__init__ resolves from its arguments.
ResolveAdapterPath(st, adapter_path, adapter_id) ==
    IF st.exc # None THEN st
    ELSE IF adapter_path = None
         THEN IF adapter_id = None
              THEN BTManager_default_adapter(st)
              ELSE BTManager_find_adapter(st, adapter_id)
         ELSE Return(st, PyStr(adapter_path))

\* BTManager.__init__, first part: the interface of the object "/".
ManagerOpen(st) ==
    IF TakesBluez4Branch
    THEN RegisterName(
             SetAttribute(
                 CallOk(RegisterNames(
                            BTInterface_init(Branch(st, "bluez4"), "BTManager",
                                             "/", MANAGER_INTERFACE_BLUEZ4),
                            <<"AdapterAdded", "AdapterRemoved",
                              "DefaultAdapterChanged">>),
                        "/", MANAGER_INTERFACE_BLUEZ4, "GetProperties", <<>>),
                 "BTManager", "_properties",
                 PyList(PropNames(MANAGER_INTERFACE_BLUEZ4))),
             "PropertyChanged")
    ELSE RegisterNames(
             BTInterface_init(Branch(st, "bluez5"), "BTManager",
                              "/", DBUS_OBJ_MANAGER),
             <<"InterfacesAdded", "InterfacesRemoved">>)

\* self._adapter = adapter, for the BTAdapter just built (or its exception).
KeepAdapter(st, adapter, path) ==
    SetAttribute(Rejoin(st, adapter), "BTManager", "_adapter",
                 <<"BTAdapter", path>>)

\* BTManager.__init__, last part: self._adapter = BTAdapter(adapter_path),
\* s2 being the call after the path was resolved.
BuildAdapter(s2) ==
    IF s2.exc # None THEN s2
    ELSE KeepAdapter(s2, BTAdapter_init(Fresh(s2), s2.val[2]), s2.val[2])

\* BTManager.__init__(adapter_path=None, adapter_id=None).
BTManager_init(st, adapter_path, adapter_id) ==
    BuildAdapter(ResolveAdapterPath(ManagerOpen(st), adapter_path, adapter_id))

\* BTManager.get_adapter(): return self._adapter.
BTManager_get_adapter(st) == GetAttribute(st, "BTManager", "_adapter")

(***************************************************************************)
(* Further public methods                                                  *)
(***************************************************************************)
\* What the daemon answers a Pair() call with: success, or an error.
PairAnswers == {None, "DBusException:org.bluez.Error.NotConnected"}

\* The daemon's answer to a method call that returns nothing.
Answered(st, answer) ==
    IF answer = None THEN Return(st, PyNone) ELSE DaemonRaise(st, answer)

\* BTDevice.pair().
BTDevice_pair(st, answer) ==
    IF TakesBluez5Branch
    THEN Answered(DbusCall(Branch(st, "bluez5"),
                           IfacePath(ReadAttr(st.d, "_interface")),
                           IfaceName(ReadAttr(st.d, "_interface")),
                           "Pair", <<>>),
                  answer)
    ELSE Raise(Branch(st, "bluez4"), "Exception:Not handled with bluez 4")

\* BTAdapter.create_paired_device(dev_id, agent_path, capability,
\* cb_notify_device, cb_notify_error): the call is asynchronous on BlueZ 4,
\* and `pass` on BlueZ 5.
BTAdapter_create_paired_device(st, dev_id, agent_path, capability) ==
    IF TakesBluez4Branch
    THEN Return(DbusCall(Branch(st, "bluez4"),
                         IfacePath(ReadAttr(st.d, "_interface")),
                         IfaceName(ReadAttr(st.d, "_interface")),
                         "CreatePairedDevice",
                         <<dev_id, agent_path, capability>>),
                PyNone)
    ELSE Return(Branch(st, "bluez5"), PyNone)

(***************************************************************************)
(* The operations a caller performs, one action each.                      *)
(***************************************************************************)
\* Most attributes a caller stores on one instance by assignment.
MaxStored == 1

\* Argument values.
AdapterPathInputs == {None, Hci1}
AdapterIdInputs == {None, "hci0", "hci9"}
DevPathInputs == {None, Dev11}
DevIdInputs == {None, "", "22:22"}
DeviceClasses == {"BTGenericDevice", "BTDevice", "BTControl"}
AttrNames == {"Address", "Powered", "Connected", "Adapters", "foo", "adapter_path"}
AttrValues == {PyStr("True"), <<"bool", "False">>}

\* The outcome of an operation, as the last-operation record.
Outcome(op, cls, name, args, st) ==
    [op |-> op, cls |-> cls, name |-> name, args |-> args, exc |-> st.exc,
     val |-> st.val, br |-> st.br, sp |-> st.sp, by |-> st.by]

\* The instance the caller holds after a constructor call.
Constructed(cls, st) == IF st.exc # None THEN NoInst ELSE [cls |-> cls, d |-> st.d]

\* The package is imported: get_version() caches the daemon's version.
ObjInit ==
    /\ version \in Versions
    /\ managed \in ManagedOrders
    /\ inst = NoInst
    /\ dlog = <<>>
    /\ oret = [op |-> "import", cls |-> "none", name |-> None, args |-> <<>>,
               exc |-> None, val |-> PyNone, br |-> {}, sp |-> <<>>,
               by |-> None]
    /\ signal_names = <<>>
    /\ signals = EmptyDict
    /\ bus = {}
    /\ installs = <<>>
    /\ cb_log = <<>>
    /\ delivered = <<>>
    /\ ret = [op |-> "init", signal |-> None, exc |-> None, bus_reqs |-> 0]
    /\ threads = Idle

\* What a constructor call leaves: the instance, the D-Bus log, the outcome.
Construct(cls, args, st) ==
    /\ inst' = Constructed(cls, st)
    /\ dlog' = st.log
    /\ oret' = Outcome("new", cls, None, args, st)

\* What a call on the instance leaves.
Finish(op, name, args, st) ==
    /\ inst' = [inst EXCEPT !.d = st.d]
    /\ dlog' = st.log
    /\ oret' = Outcome(op, inst.cls, name, args, st)

\* BTAdapter(adapter_path).
NewAdapter(adapter_path) ==
    /\ inst = NoInst
    /\ Construct("BTAdapter", <<adapter_path>>,
                 BTAdapter_new(Start(EmptyDict),
                               [k \in {"adapter_path"} |-> adapter_path]))
    /\ UNCHANGED <<version, managed, sigVars, threads>>

\* BTManager(adapter_path=..., adapter_id=...).
NewManager(adapter_path, adapter_id) ==
    /\ inst = NoInst
    /\ Construct("BTManager", <<adapter_path, adapter_id>>,
                 BTManager_init(Start(EmptyDict), adapter_path, adapter_id))
    /\ UNCHANGED <<version, managed, sigVars, threads>>

\* The constructor of a device class; BTGenericDevice is given the device
\* interface as addr.
DeviceInit(cls, dev_path, adapter_path, adapter_id, dev_id) ==
    CASE cls = "BTDevice" ->
           BTDevice_init(Start(EmptyDict), dev_path, adapter_path,
                         adapter_id, dev_id)
      [] cls = "BTControl" ->
           BTControl_init(Start(EmptyDict), dev_path, adapter_path,
                          adapter_id, dev_id)
      [] OTHER ->
           BTGenericDevice_init(Start(EmptyDict), cls, DEVICE_INTERFACE_BLUEZ4,
                                dev_path, adapter_path, adapter_id, dev_id)

\* cls(dev_path=..., adapter_path=..., adapter_id=..., dev_id=...).
NewDevice(cls, dev_path, adapter_path, adapter_id, dev_id) ==
    /\ inst = NoInst
    /\ Construct(cls, <<dev_path, adapter_path, adapter_id, dev_id>>,
                 DeviceInit(cls, dev_path, adapter_path, adapter_id, dev_id))
    /\ UNCHANGED <<version, managed, sigVars, threads>>

\* value = instance.name
ReadAttribute(name) ==
    /\ inst # NoInst
    /\ Finish("getattr", name, <<>>, GetAttribute(Start(inst.d), inst.cls, name))
    /\ UNCHANGED <<version, managed, sigVars, threads>>

\* The attributes the caller has stored on the instance by assignment.
StoredByCaller ==
    (DOMAIN inst.d \cap AttrNames)
        \ (IF inst.cls = "BTAdapter" THEN {"adapter_path"} ELSE {})

\* instance.name = value
WriteAttribute(name, value) ==
    /\ inst # NoInst
    /\ Cardinality(StoredByCaller) < MaxStored
    /\ Finish("setattr", name, value,
              SetAttribute(Start(inst.d), inst.cls, name, value))
    /\ UNCHANGED <<version, managed, sigVars, threads>>

\* instance.get_property(name)
GetProperty(name) ==
    /\ inst # NoInst
    /\ Finish("get_property", name, <<>>,
              get_property(Start(inst.d), inst.cls, name))
    /\ UNCHANGED <<version, managed, sigVars, threads>>

\* manager.get_adapter()
GetAdapter ==
    /\ inst.cls = "BTManager"
    /\ Finish("get_adapter", None, <<>>, BTManager_get_adapter(Start(inst.d)))
    /\ UNCHANGED <<version, managed, sigVars, threads>>

\* adapter.find_device(dev_id)
FindDevice(dev_id) ==
    /\ inst.cls = "BTAdapter"
    /\ Finish("find_device", None, <<dev_id>>,
              BTAdapter_find_device(Start(inst.d), dev_id))
    /\ UNCHANGED <<version, managed, sigVars, threads>>

\* instance.set_property(name, value)
SetProperty(name, value) ==
    /\ inst # NoInst
    /\ Finish("set_property", name, value,
              ReturnNone(set_property(Start(inst.d), inst.cls, name, value)))
    /\ UNCHANGED <<version, managed, sigVars, threads>>

\* device.pair()
Pair(answer) ==
    /\ inst.cls = "BTDevice"
    /\ Finish("pair", None, <<>>, BTDevice_pair(Start(inst.d), answer))
    /\ UNCHANGED <<version, managed, sigVars, threads>>

\* adapter.create_paired_device(dev_id, agent_path, capability, ...)
CreatePairedDevice(dev_id) ==
    /\ inst.cls = "BTAdapter"
    /\ Finish("create_paired_device", None, <<dev_id>>,
              BTAdapter_create_paired_device(Start(inst.d), dev_id,
                                             "/test/agent", "DisplayYesNo"))
    /\ UNCHANGED <<version, managed, sigVars, threads>>

\* manager.default_adapter()
DefaultAdapter ==
    /\ inst.cls = "BTManager"
    /\ Finish("default_adapter", None, <<>>,
              BTManager_default_adapter(Start(inst.d)))
    /\ UNCHANGED <<version, managed, sigVars, threads>>

NewAdapterStep == \E p \in AdapterPaths : NewAdapter(p)

NewManagerStep ==
    \E p \in AdapterPathInputs, i \in AdapterIdInputs : NewManager(p, i)

NewDeviceStep ==
    \E c \in DeviceClasses, dp \in DevPathInputs, ap \in AdapterPathInputs,
       ai \in AdapterIdInputs, di \in DevIdInputs :
        NewDevice(c, dp, ap, ai, di)

ReadAttributeStep == \E n \in AttrNames \cup {"_adapter"} : ReadAttribute(n)

WriteAttributeStep == \E n \in AttrNames, v \in AttrValues : WriteAttribute(n, v)

GetPropertyStep == \E n \in AttrNames : GetProperty(n)

FindDeviceStep == \E di \in {"11:11", "22:22", "33:33"} : FindDevice(di)

SetPropertyStep == \E n \in AttrNames, v \in AttrValues : SetProperty(n, v)

PairStep == \E a \in PairAnswers : Pair(a)

CreatePairedDeviceStep == \E di \in {"11:11"} : CreatePairedDevice(di)

ObjNext ==
    \/ SetPropertyStep
    \/ PairStep
    \/ CreatePairedDeviceStep
    \/ DefaultAdapter
    \/ NewAdapterStep
    \/ NewManagerStep
    \/ NewDeviceStep
    \/ ReadAttributeStep
    \/ WriteAttributeStep
    \/ GetPropertyStep
    \/ GetAdapter
    \/ FindDeviceStep

ObjSpec == ObjInit /\ [][ObjNext]_vars

(***************************************************************************)
(* Properties of construction, version branching and attribute access.    *)
(***************************************************************************)
\* The daemon's properties of the object an instance of cls stands for.
DaemonProps(cls) ==
    CASE cls = "BTAdapter" -> {"Address", "Powered"}
      [] cls = "BTManager" -> {"Adapters"}
      [] cls = "BTControl" -> {"Connected"}
      [] OTHER -> {"Address", "Trusted", "Connected"}

\* The arguments of the last device construction.
NewDeviceDone == oret.op = "new" /\ oret.cls \in DeviceClasses
ArgDevPath == oret.args[1]
ArgAdapterPath == oret.args[2]
ArgAdapterId == oret.args[3]
ArgDevId == oret.args[4]

\* C5: every operation and constructor that branches on the version takes
\* its BlueZ 4 path when 4 <= version < 5 and its BlueZ 5 path when
\* version >= 5, and the import-time branch classifies the version the same
\* way as the branches of the classes.
C5_VersionBranchesByGeneration ==
    /\ (oret.br # {} /\ version.major = 4) => oret.br = {"bluez4"}
    /\ (oret.br # {} /\ version.major >= 5) => oret.br = {"bluez5"}
    /\ oret.br # {} => (ImportsBluez4Audio <=> TakesBluez4Branch)

\* C6: reading an attribute named after a daemon property of the object,
\* which the caller has not stored on the instance, gives what
\* get_property(name) gives.
C6_AttributeReadIsGetProperty ==
    (/\ oret.op = "getattr"
     /\ oret.name \in DaemonProps(oret.cls)
     /\ oret.name \notin DOMAIN inst.d)
        => /\ oret.exc = get_property(Start(inst.d), inst.cls, oret.name).exc
           /\ oret.val = get_property(Start(inst.d), inst.cls, oret.name).val

\* C7: an assignment to a daemon property's name makes one call
\* set_property(name, value) and stores nothing on the instance; an
\* assignment to another name stores the value and calls no set_property.
C7_AttributeWriteSetsPropertyOrStores ==
    oret.op = "setattr" =>
        IF oret.name \in DaemonProps(oret.cls)
        THEN /\ oret.sp = << <<oret.name>> \o oret.args >>
             /\ oret.name \notin DOMAIN inst.d
        ELSE /\ oret.sp = <<>>
             /\ oret.name \in DOMAIN inst.d
             /\ inst.d[oret.name] = oret.args

\* C8: a constructed BTManager holds the BTAdapter of the resolved adapter
\* path, and get_adapter() returns it, never None.
C8_GetAdapterReturnsBuiltAdapter ==
    /\ (oret.op = "new" /\ oret.cls = "BTManager" /\ oret.exc = None)
           => BTManager_get_adapter(Start(inst.d)).val =
                  <<"BTAdapter",
                    ResolveAdapterPath(ManagerOpen(Start(EmptyDict)),
                                       oret.args[1], oret.args[2]).val[2]>>
    /\ oret.op = "get_adapter" => oret.val # PyNone

\* C9: a device constructed from dev_id without dev_path, on an adapter the
\* daemon has, opens the object of the device with that address.
C9_DeviceOpenedFromDevId ==
    (/\ NewDeviceDone
     /\ ~Truthy(ArgDevPath)
     /\ Truthy(ArgDevId)
     /\ ArgAdapterId \in {None, "hci0"})
        => /\ oret.exc = None
           /\ \E i \in DOMAIN dlog :
                  /\ Len(dlog[i]) = 3
                  /\ dlog[i][1] = "get_object"
                  /\ AddressOf(dlog[i][3]) = ArgDevId

\* C10: a device constructed with neither dev_path nor dev_id raises
\* BTDeviceNotSpecifiedException, no instance results, and nothing was opened
\* or called on D-Bus on the way: no device object, no adapter look-up.
C10_NoDeviceGivenRaisesBeforeDbus ==
    (NewDeviceDone /\ ~Truthy(ArgDevPath) /\ ~Truthy(ArgDevId))
        => /\ oret.exc = "BTDeviceNotSpecifiedException"
           /\ dlog = <<>>
           /\ inst = NoInst

\* The case of C10 with an adapter named and an empty dev_id.
C10_Witness ==
    /\ NewDeviceDone
    /\ ArgDevPath = None
    /\ ArgDevId = ""
    /\ ArgAdapterPath = Hci1
    /\ oret.exc = "BTDeviceNotSpecifiedException"

(***************************************************************************)
(* Properties of the public methods: errors and D-Bus traffic.             *)
(***************************************************************************)
\* The public methods called on a constructed instance.
PublicMethods ==
    {"get_property", "set_property", "find_device", "pair",
     "create_paired_device", "default_adapter"}

\* The D-Bus method calls among the entries of a log.
NumCalls(log) == Cardinality({i \in DOMAIN log : log[i][1] = "call"})

\* C11: an error a public method reports to its caller was raised by the
\* daemon, out of one of the D-Bus method calls the method made; the
\* package's own code raises none.
C11_ErrorsAreTheDaemons ==
    (oret.op \in PublicMethods /\ oret.exc # None)
        => /\ oret.by = "daemon"
           /\ NumCalls(dlog) >= 1

\* C12: a call of a public method issues exactly one D-Bus method call.
C12_OneCallPerMethod ==
    oret.op \in PublicMethods => NumCalls(dlog) = 1

(***************************************************************************)
(* Part C (ConcSpec): add_signal_receiver(S) and remove_signal_receiver(S) *)
(* called on one instance from two threads.  The methods take no lock; the *)
(* interpreter switches threads between their statements, so each          *)
(* statement is a step: the membership test, the dict store, the dict      *)
(* get, the dict pop, and each request to the bus.  threads.overlapped     *)
(* records that a statement of one thread ran while the other thread was   *)
(* between its statements.                                                 *)
(***************************************************************************)
\* The table _signals and the bus subscriptions, as one value.
Bookkeeping(tab, b) == [signals |-> tab, bus |-> b]

\* add_signal_receiver(callback_fn, signal, user_arg) run alone on (tab, b),
\* s being the Signal object it creates.
AddAlone(bk, signal, s) ==
    IF InList(signal, signal_names)
    THEN Bookkeeping(DictSet(bk.signals, signal, s),
                     bus_add_signal_receiver(bk.bus, s, signal, SelfDbusAddr,
                                             SelfPath))
    ELSE bk

\* remove_signal_receiver(signal) run alone.
RemoveAlone(bk, signal) ==
    IF InList(signal, signal_names) /\ signal \in DOMAIN bk.signals
    THEN Bookkeeping(DictPop(bk.signals, signal),
                     bus_remove_signal_receiver(bk.bus, bk.signals[signal],
                                                signal, SelfDbusAddr, None))
    ELSE bk

\* A thread is between its statements: it has run one and has not returned.
Midway(pc) == pc \notin {"idle", "check", "done"}

\* Both threads are started: one calls add_signal_receiver(callback_fn,
\* signal, user_arg), the other remove_signal_receiver(signal).
Fork(callback_fn, signal, user_arg) ==
    /\ threads = Idle
    /\ Len(installs) < MaxAdds
    /\ threads' = [add_pc |-> "check", rem_pc |-> "check", signal |-> signal,
                   callback_fn |-> callback_fn, user_arg |-> user_arg,
                   s |-> <<>>, start_signals |-> signals, start_bus |-> bus,
                   overlapped |-> FALSE]
    /\ UNCHANGED <<sigVars, objVars>>

\* add: `if (signal in self._signal_names)`, else the raise.
AddCheck ==
    /\ threads.add_pc = "check"
    /\ threads' = [threads EXCEPT
                      !.add_pc = IF InList(threads.signal, signal_names)
                                 THEN "store" ELSE "done",
                      !.overlapped = @ \/ Midway(threads.rem_pc)]
    /\ UNCHANGED <<sigVars, objVars>>

\* add: s = Signal(...); self._signals[signal] = s.
AddStore ==
    /\ threads.add_pc = "store"
    /\ signals' = DictSet(signals, threads.signal,
                          Signal(Len(installs) + 1, threads.signal,
                                 threads.callback_fn, threads.user_arg))
    /\ installs' = Append(installs, [callback_fn |-> threads.callback_fn,
                                     signal |-> threads.signal,
                                     user_arg |-> threads.user_arg])
    /\ threads' = [threads EXCEPT !.add_pc = "subscribe",
                                  !.overlapped = @ \/ Midway(threads.rem_pc)]
    /\ UNCHANGED <<signal_names, bus, cb_log, delivered, ret, objVars>>

\* add: self._bus.add_signal_receiver(s.signal_handler, ...), s being the
\* Signal the thread created, the last one installed.
AddSubscribe ==
    /\ threads.add_pc = "subscribe"
    /\ bus' = bus_add_signal_receiver(
                  bus,
                  Signal(Len(installs), threads.signal, threads.callback_fn,
                         threads.user_arg),
                  threads.signal, SelfDbusAddr, SelfPath)
    /\ threads' = [threads EXCEPT !.add_pc = "done",
                                  !.overlapped = @ \/ Midway(threads.rem_pc)]
    /\ UNCHANGED <<signal_names, signals, installs, cb_log, delivered, ret,
                   objVars>>

\* remove: `if (signal in self._signal_names)`, else the raise.
RemCheck ==
    /\ threads.rem_pc = "check"
    /\ threads' = [threads EXCEPT
                      !.rem_pc = IF InList(threads.signal, signal_names)
                                 THEN "get" ELSE "done",
                      !.overlapped = @ \/ Midway(threads.add_pc)]
    /\ UNCHANGED <<sigVars, objVars>>

\* remove: s = self._signals.get(signal); `if (s)`.
RemGet ==
    /\ threads.rem_pc = "get"
    /\ threads' = IF threads.signal \in DOMAIN signals
                  THEN [threads EXCEPT
                           !.rem_pc = "unsubscribe",
                           !.s = <<signals[threads.signal]>>,
                           !.overlapped = @ \/ Midway(threads.add_pc)]
                  ELSE [threads EXCEPT
                           !.rem_pc = "done",
                           !.overlapped = @ \/ Midway(threads.add_pc)]
    /\ UNCHANGED <<sigVars, objVars>>

\* remove: self._bus.remove_signal_receiver(s.signal_handler, ...).
RemUnsubscribe ==
    /\ threads.rem_pc = "unsubscribe"
    /\ bus' = bus_remove_signal_receiver(bus, threads.s[1], threads.signal,
                                         SelfDbusAddr, None)
    /\ threads' = [threads EXCEPT !.rem_pc = "pop",
                                  !.overlapped = @ \/ Midway(threads.add_pc)]
    /\ UNCHANGED <<signal_names, signals, installs, cb_log, delivered, ret,
                   objVars>>

\* remove: self._signals.pop(signal).
RemPop ==
    /\ threads.rem_pc = "pop"
    /\ signals' = DictPop(signals, threads.signal)
    /\ threads' = [threads EXCEPT !.rem_pc = "done",
                                  !.overlapped = @ \/ Midway(threads.add_pc)]
    /\ UNCHANGED <<signal_names, bus, installs, cb_log, delivered, ret,
                   objVars>>

\* Both threads have returned and are joined.
Join ==
    /\ threads.add_pc = "done"
    /\ threads.rem_pc = "done"
    /\ threads' = Idle
    /\ UNCHANGED <<sigVars, objVars>>

\* Before the threads start, the instance is used from one thread.
SetUpRegister == threads = Idle /\ RegisterStep
SetUpAdd == threads = Idle /\ AddStep

ForkStep ==
    \E r \in Receivers, sig \in SignalNames : Fork(r[1], sig, r[2])

ConcNext ==
    \/ SetUpRegister
    \/ SetUpAdd
    \/ ForkStep
    \/ AddCheck
    \/ AddStore
    \/ AddSubscribe
    \/ RemCheck
    \/ RemGet
    \/ RemUnsubscribe
    \/ RemPop
    \/ Join

ConcSpec == SigInit /\ [][ConcNext]_vars

\* Both threads have returned from the calls they were started on.
BothReturned == threads.add_pc = "done" /\ threads.rem_pc = "done"

\* What the instance held when the threads were started.
AtStart == Bookkeeping(threads.start_signals, threads.start_bus)

\* The Signal object the adding thread created, if it got that far.
Added ==
    Signal(Len(installs), threads.signal, threads.callback_fn,
           threads.user_arg)

\* C13: when both threads have returned, the table of installed receivers
\* and the handlers subscribed on the bus are those that add-then-remove or
\* remove-then-add, run one after the other from the same start, produce.
C13_InterleavingsAreSequential ==
    BothReturned =>
        Bookkeeping(signals, bus) \in
            { RemoveAlone(AddAlone(AtStart, threads.signal, Added),
                          threads.signal),
              AddAlone(RemoveAlone(AtStart, threads.signal), threads.signal,
                       Added) }

\* Both threads have returned from a run in which the remove thread read
\* the Signal the add thread had stored but not yet subscribed, and popped
\* it after the add thread subscribed it.
C13_Witness ==
    /\ BothReturned
    /\ threads.overlapped
    /\ threads.s = <<Added>>
    /\ threads.signal \notin DOMAIN signals
    /\ \E m \in bus : m.handler = Added

====
